---------------------------- MODULE Spec2Model ----------------------------
(***************************************************************************)
(* Model of the workflow orchestrator (WorkflowOrchestrator), the agent    *)
(* framework (BaseAgent and the three agent variants), the case store of   *)
(* the routes and the retrieval service (RAGService).                      *)
(*                                                                         *)
(* The program runs on one JavaScript event loop.  An action of this model *)
(* is one run-to-completion step: the code executed between two awaits.    *)
(*   - The synchronous prefix of processWorkflow runs up to the point      *)
(*     where  await agent.process(currentCase)  suspends it; the           *)
(*     synchronous prefix of agent.process (busy check, flag, status,      *)
(*     processing-started) is part of that same step.                      *)
(*   - The settling of executeTask runs the rest of agent.process (metrics,*)
(*     event, catch, finally) and settles the promise processWorkflow is   *)
(*     awaiting.                                                           *)
(*   - The continuation of processWorkflow after the await is a separate   *)
(*     job of the event loop; it runs the success or the catch branch and  *)
(*     then the loop up to the next await (or to the end).  The jobs are   *)
(*     run in the order in which the awaited promises settled (jobQueue).  *)
(* Every emit() is synchronous; the events a step emits are recorded, in   *)
(* order, in the variable emitted (the output of the last step).           *)
(*                                                                         *)
(* Six specifications share the variables:                                 *)
(*   Spec          the orchestrator under concurrent calls, cases          *)
(*                 abstract;                                               *)
(*   CaseSpec      one case through its workflow, the agents' tasks in     *)
(*                 detail;                                                 *)
(*   RoutesSpec    the HTTP routes of the cases and workflows routers,     *)
(*                 each with its own orchestrator (FairRoutesSpec adds     *)
(*                 fairness);                                              *)
(*   DocumentsSpec the document selection of the document agent, over      *)
(*                 every case that passes validation;                      *)
(*   RagSpec       the RAGService under concurrent initialize, addDocument *)
(*                 and query calls, with its two files;                    *)
(*   AgentSpec     one BaseAgent under direct process, setMaintenanceMode  *)
(*                 and healthCheck calls, with the clock.                  *)
(***************************************************************************)
EXTENDS Integers, Sequences, FiniteSets, TLC

\* ---------------------------------------------------------------- bounds
\* number of startWorkflow calls in one behaviour
MaxWorkflows == 2
\* number of processWorkflow, pauseWorkflow and cancelWorkflow calls in one
\* behaviour
MaxCalls == 2
\* number of HTTP requests the routes serve in one behaviour
MaxRequests == 4
\* number of initialize, addDocument and query calls on the RAGService in one
\* behaviour
MaxRagCalls == 3
\* number of process() calls callers make on the agents directly in one
\* behaviour
MaxProcessCalls == 3
\* the latest time the clock reaches
MaxClock == 3

\* -------------------------------------------------------------- constants
\* getWorkflowStages(): the fixed ordered stage list
getWorkflowStages ==
  << "plaintiff-intake", "legal-research", "argument-generation",
     "document-drafting", "review-and-revision", "final-formatting" >>

NumStages == Len(getWorkflowStages)

\* keys of the agents map built by initializeAgents()
AgentKeys == {"intake", "research", "document"}

\* id used by callers for a workflow that was never started
UnknownId == 0

\* ids of the case records callers hold (the orchestrator takes cases by value)
CaseIds == {101, 102}

VARIABLES
  uuidCount,        \* number of ids uuidv4() has returned so far (ids 1..uuidCount)
  calls,            \* number of API calls made so far (bounded by MaxCalls)
  workflows,        \* every WorkflowState object ever allocated: workflow id -> record
  activeWorkflows,  \* keys of the activeWorkflows map
  workflowQueue,    \* WorkflowOrchestrator.workflowQueue
  agents,           \* agent key -> BaseAgent fields
  runs,             \* the processWorkflow invocations made so far, in call order
  jobQueue,         \* the runs whose awaited agent.process() promise has settled
                    \* and whose continuation has not run yet, oldest first
  emitted,          \* events emitted by the last step, in order
  thrown,           \* the error the last API call threw at once, or NoError
  signalled,        \* history: runs that were in progress when pauseWorkflow or
                    \* cancelWorkflow was called for their workflow
  history,          \* history: for every run the events emitted by its steps
                    \* (events), the time at which its pending process() call
                    \* was accepted (started); for every agent the durations of
                    \* the process() calls that resolved (durations)
  cases,            \* the case records the caller holds (the cases Map of the
                    \* routes): case id -> LegalCase
  heap,             \* the caseDetails objects, by reference: a LegalCase holds the
                    \* reference, and a shallow copy of the case shares the object
  workflowsRouter,  \* the WorkflowOrchestrator of the workflows router (the
                    \* instance routes/workflows.ts makes for itself)
  responses,        \* the HTTP responses the routes have sent, oldest first
  documentsFor,     \* the case determineDocumentsNeeded was last called for
                    \* (its category, complexity and urgency), or Null
  documentsNeeded,  \* the list that call returned
  openaiKey,        \* process.env.OPENAI_API_KEY is set
  rag,              \* the RAGService: Null before its construction, then its
                    \* fields isInitialized, documents (the entries of the Map, in
                    \* insertion order), vectorIndex (0 for null, or the number
                    \* of an HNSWLib object) and objects (the HNSWLib objects made)
  disk,             \* the files documents.json and index.bin
  ragCalls,         \* the calls of initialize, addDocument and query made so
                    \* far, each with the await it is suspended at
  clock,            \* Date.now()
  health            \* for each agent, whether healthCheck() has been called and
                    \* what it last returned

documentVars == << documentsFor, documentsNeeded >>

ragVars == << openaiKey, rag, disk, ragCalls >>

\* the state of the services and agents examined on their own
agentVars == << clock, health >>

serviceVars == << documentVars, ragVars, agentVars >>

\* the state outside the orchestrator; no operation of the orchestrator
\* assigns to it
appVars == << cases, heap, workflowsRouter, responses, serviceVars >>

vars == << uuidCount, calls, workflows, activeWorkflows, workflowQueue, agents,
           runs, jobQueue, emitted, thrown, signalled, history, cases, heap,
           workflowsRouter, responses, documentsFor, documentsNeeded,
           openaiKey, rag, disk, ragCalls, clock, health >>

\* ---------------------------------------------------------------- helpers
Includes(seq, x) == \E i \in 1..Len(seq) : seq[i] = x

IndexOf(seq, x) ==
  IF Includes(seq, x)
    THEN (CHOOSE i \in 1..Len(seq) : seq[i] = x /\ \A j \in 1..(i-1) : seq[j] # x) - 1
    ELSE -1

\* faulty variant of RoundPercent: truncates instead of rounding
FloorPercent(n, d) == (100 * n) \div d

\* Math.round(n / d * 100) for n >= 0, d > 0 (round half up)
RoundPercent(n, d) == (200 * n + d) \div (2 * d)

\* an emitted event: its name and the fields of its payload the model keeps
\* (0 or "" for a field the event does not carry)
Event(type, wf, caseId, stage, agent) ==
  [type |-> type, wf |-> wf, caseId |-> caseId, stage |-> stage, agent |-> agent]

\* A "world" is the part of the state one step of the orchestrator works on.
World ==
  [wfs |-> workflows, active |-> activeWorkflows, agents |-> agents,
   runs |-> runs, jobs |-> jobQueue, out |-> << >>]

Emit(s, ev) == [s EXCEPT !.out = Append(@, ev)]

\* ------------------------------------------------------------ orchestrator
getAgentForStage(stage) ==
  CASE stage = "plaintiff-intake"    -> "intake"
    [] stage = "legal-research"      -> "research"
    [] stage = "argument-generation" -> "research"
    [] stage = "document-drafting"   -> "document"
    [] stage = "review-and-revision" -> "document"
    [] stage = "final-formatting"    -> "document"

\* name of the agent, as getAgentInfo().name gives it
AgentName(a) ==
  CASE a = "intake"   -> "Legal Intake Agent"
    [] a = "research" -> "Legal Research Agent"
    [] a = "document" -> "Legal Document Agent"

\* faulty variant of addWorkflowLog: the entry is written with
\* activeWorkflows.set, which registers the workflow again when it is gone
addWorkflowLogRegisters(s, w, stage, agent, action) ==
  [s EXCEPT !.active = @ \cup {w},
            !.wfs[w].logs = Append(@, [stage |-> stage, agent |-> agent, action |-> action])]

addWorkflowLog(s, w, stage, agent, action) ==
  IF w \notin s.active THEN s
  ELSE [s EXCEPT !.wfs[w].logs =
          Append(@, [stage |-> stage, agent |-> agent, action |-> action])]

addWorkflowError(s, w, stage, agent, error, severity) ==
  IF w \notin s.active THEN s
  ELSE [s EXCEPT !.wfs[w].errors =
          Append(@, [stage |-> stage, agent |-> agent, error |-> error,
                     severity |-> severity, resolved |-> FALSE])]

updateWorkflowProgress(s, w, currentStage) ==
  IF w \notin s.active THEN s
  ELSE LET progress == RoundPercent(IndexOf(getWorkflowStages, currentStage), NumStages)
       IN Emit([s EXCEPT !.wfs[w].progress = progress,
                         !.wfs[w].currentStage = currentStage],
               Event("workflow-progress", w, s.wfs[w].caseId, currentStage, ""))

\* ------------------------------------------------------------------ agents
\* The variant's task, when it succeeds: IntakeAgent, ResearchAgent and
\* DocumentAgent each return a copy of the case with workflowStage set to a
\* fixed stage (the same whatever stage the orchestrator dispatched).  Whether
\* a task succeeds depends on the case and on the external services; it is an
\* input of AgentSettle.
executeTask(a, c) ==
  CASE a = "intake"   -> [c EXCEPT !.workflowStage = "legal-research"]
    [] a = "research" -> [c EXCEPT !.workflowStage = "argument-generation"]
    [] a = "document" -> [c EXCEPT !.workflowStage = "review-and-revision"]

\* faulty variant of updateMetrics: the old average is not weighted by the
\* number of cases it stands for
updateMetricsUnweighted(ag, processingTime) ==
  LET processedCases == ag.processedCases + 1
      average        == ag.averageProcessingTime
  IN [ag EXCEPT
        !.processedCases = processedCases,
        !.averageProcessingTime =
          IF processedCases = 1
            THEN [num |-> processingTime, den |-> 1]
            ELSE [num |-> average.num + processingTime * average.den,
                  den |-> average.den * 2]]

\* BaseAgent.updateMetrics.  averageProcessingTime is the rational number
\* num/den; the division is exact (JavaScript rounds it to a double)
updateMetrics(ag, processingTime) ==
  LET processedCases == ag.processedCases + 1
      average        == ag.averageProcessingTime
  IN [ag EXCEPT
        !.processedCases = processedCases,
        !.averageProcessingTime =
          IF processedCases = 1
            THEN [num |-> processingTime, den |-> 1]
            ELSE [num |-> average.num * (processedCases - 1) + processingTime * average.den,
                  den |-> average.den * processedCases]]

\* faulty variant of processEnter: the busy check is missing
processEnterUnguarded(s, a, r) ==
  Emit([s EXCEPT !.agents[a].isProcessing = TRUE,
                 !.agents[a].status = "processing",
                 !.agents[a].startTime = clock,
                 !.agents[a].caller = r,
                 !.runs[r].pc = "awaiting"],
       Event("agent-processing-started", 0, s.runs[r].currentCase.id, "", a))

\* faulty variant of processEnter: the rejected call runs the finally block
\* and clears the flag of the call in flight
processEnterReleases(s, a, r) ==
  IF s.agents[a].isProcessing
    THEN [s EXCEPT !.agents[a].isProcessing = FALSE,
                   !.agents[a].status = "idle",
                   !.runs[r].pc = "call-rejected",
                   !.runs[r].error = "already processing a case",
                   !.jobs = Append(@, r)]
    ELSE Emit([s EXCEPT !.agents[a].isProcessing = TRUE,
                        !.agents[a].status = "processing",
                        !.agents[a].startTime = clock,
                        !.agents[a].caller = r,
                        !.runs[r].pc = "awaiting"],
              Event("agent-processing-started", 0, s.runs[r].currentCase.id, "", a))

\* BaseAgent.process, synchronous prefix, called by run r for agent a:
\* the busy check; then the flag, the status and processing-started.
\* A rejected call leaves the agent untouched and leaves r with a rejected
\* promise to await.
processEnter(s, a, r) ==
  IF s.agents[a].isProcessing
    THEN [s EXCEPT !.runs[r].pc = "call-rejected",
                   !.runs[r].error = "already processing a case",
                   !.jobs = Append(@, r)]
    ELSE Emit([s EXCEPT !.agents[a].isProcessing = TRUE,
                        !.agents[a].status = "processing",
                        !.agents[a].startTime = clock,
                        !.agents[a].caller = r,
                        !.runs[r].pc = "awaiting"],
              Event("agent-processing-started", 0, s.runs[r].currentCase.id, "", a))

\* faulty variant of processFinally: the status is not reset
processFinallyKeepsStatus(ag) ==
  [ag EXCEPT !.isProcessing = FALSE, !.caller = 0, !.startTime = 0]

\* the finally block of BaseAgent.process
processFinally(ag) ==
  [ag EXCEPT !.isProcessing = FALSE,
             !.caller = 0,
             !.startTime = 0,
             !.status = IF @ # "error" THEN "idle" ELSE @]

\* BaseAgent.process after executeTask has settled (ok: it resolved with
\* result).
processSettle(s, a, ok, result) ==
  LET r == s.agents[a].caller IN
  IF ok
    THEN LET s1 == [s EXCEPT !.agents[a] = updateMetrics(@, clock - @.startTime)]
             s2 == Emit(s1, Event("agent-processing-completed", 0, s.runs[r].currentCase.id, "", a))
         IN [s2 EXCEPT !.agents[a] = processFinally(@),
                       !.runs[r].pc = "call-resolved",
                       !.runs[r].value = result,
                       !.jobs = Append(@, r)]
    ELSE LET s1 == Emit(s, Event("agent-processing-failed", 0, s.runs[r].currentCase.id, "", a))
             s2 == [s1 EXCEPT !.agents[a].status = "error"]
         IN [s2 EXCEPT !.agents[a] = processFinally(@),
                       !.runs[r].pc = "call-rejected",
                       !.runs[r].error = "task failed",
                       !.jobs = Append(@, r)]

isAvailable(ag) == ag.status = "idle" /\ ~ag.isProcessing

\* ------------------------------------------- processWorkflow, step by step
\* lines 171-189: every stage is in completedStages (or was just completed)
finishWorkflow(s, r) ==
  LET w  == s.runs[r].wf
      s1 == [s EXCEPT !.wfs[w].currentStage = "completed",
                      !.wfs[w].progress = 100]
      s2 == addWorkflowLog(s1, w, "completed", "workflow-orchestrator", "completed")
      s3 == Emit(s2, Event("workflow-completed", w, s.runs[r].currentCase.id, "completed", ""))
  IN [s3 EXCEPT !.runs[r].pc = "resolved"]

\* lines 109-127: the loop body for one stage, up to the await
dispatchStage(s, r, j) ==
  LET w     == s.runs[r].wf
      stage == getWorkflowStages[j]
      s1 == [s EXCEPT !.wfs[w].currentStage = stage, !.runs[r].stage = j]
      s2 == updateWorkflowProgress(s1, w, stage)
      s3 == Emit(s2, Event("workflow-stage-started", w, s.runs[r].currentCase.id, stage, ""))
  IN processEnter(s3, getAgentForStage(stage), r)

\* faulty variant of runLoop: completed stages are not skipped
runLoopNoSkip(s, r, from) ==
  IF from > NumStages THEN finishWorkflow(s, r) ELSE dispatchStage(s, r, from)

\* lines 104-107: the for loop from stage index from on, skipping the stages
\* that are in completedStages at the time the loop reaches them
runLoop(s, r, from) ==
  LET w    == s.runs[r].wf
      todo == {j \in from..NumStages :
                 ~Includes(s.wfs[w].completedStages, getWorkflowStages[j])}
  IN IF todo = {} THEN finishWorkflow(s, r)
     ELSE dispatchStage(s, r, CHOOSE j \in todo : \A k \in todo : j <= k)

\* lines 128-146: the continuation after agent.process resolved
stageSucceeded(s, r) ==
  LET w     == s.runs[r].wf
      j     == s.runs[r].stage
      stage == getWorkflowStages[j]
      s1 == [s EXCEPT !.runs[r].currentCase = s.runs[r].value,
                      !.wfs[w].completedStages = Append(@, stage)]
      s2 == addWorkflowLog(s1, w, stage, AgentName(getAgentForStage(stage)), "completed")
      s3 == Emit(s2, Event("workflow-stage-completed", w, s1.runs[r].currentCase.id, stage, ""))
  IN runLoop(s3, r, j + 1)

\* faulty variant of stageFailed: the error is recorded and the run goes on
\* with the next stage
stageFailedContinue(s, r) ==
  LET w     == s.runs[r].wf
      stage == getWorkflowStages[s.runs[r].stage]
      s1 == addWorkflowError(s, w, stage, AgentName(getAgentForStage(stage)),
                             s.runs[r].error, "high")
      s2 == Emit(s1, Event("workflow-stage-failed", w, s.runs[r].currentCase.id, stage, ""))
  IN runLoop(s2, r, s.runs[r].stage + 1)

\* lines 148-168 and 191-217: the continuation after agent.process rejected
stageFailed(s, r) ==
  LET w     == s.runs[r].wf
      stage == getWorkflowStages[s.runs[r].stage]
      msg   == s.runs[r].error
      s1 == addWorkflowError(s, w, stage, AgentName(getAgentForStage(stage)), msg, "high")
      s2 == Emit(s1, Event("workflow-stage-failed", w, s.runs[r].currentCase.id, stage, ""))
      s3 == addWorkflowError(s2, w, s2.wfs[w].currentStage, "workflow-orchestrator",
                             msg, "critical")
      s4 == Emit(s3, Event("workflow-failed", w, s.runs[r].caseData.id, s3.wfs[w].currentStage, ""))
  IN [s4 EXCEPT !.runs[r].pc = "rejected"]

\* lines 94-102: entry of processWorkflow for a registered workflow; the new
\* run is the last element of s.runs
processWorkflowEnter(s) == runLoop(s, Len(s.runs), 1)

\* a run that is suspended in, or about to resume from, its await
InProgress(run) == run.pc \in {"awaiting", "call-resolved", "call-rejected"}

\* ----------------------------------------------------------- startWorkflow
\* faulty variant of newWorkflowId: the case id is reused as the workflow id
newWorkflowIdFromCase(caseData) == caseData.id

\* line 58: const workflowId = uuidv4()
newWorkflowId(caseData) == uuidCount + 1

\* lines 60-68
initialWorkflowState(caseData) ==
  [caseId |-> caseData.id, currentStage |-> "plaintiff-intake",
   completedStages |-> << >>, progress |-> 0, logs |-> << >>, errors |-> << >>]

\* processQueue(): shifts every queued id and emits workflow-processing-required
RECURSIVE processQueue(_, _)
processQueue(s, queue) ==
  IF queue = << >> THEN s
  ELSE processQueue(Emit(s, Event("workflow-processing-required", Head(queue), 0, "", "")),
                    Tail(queue))

\* ------------------------------------------------------------------- state
\* the value of thrown when the last call threw nothing
NoError == << >>

\* new Error(`Workflow ${workflowId} not found`)
WorkflowNotFound(workflowId) == << "Workflow", workflowId, "not found" >>

\* the value JavaScript's null
Null == [null |-> TRUE]

\* a file that does not exist, and a file with its content
NoFile == [exists |-> FALSE, content |-> << >>]

File(content) == [exists |-> TRUE, content |-> content]

NoCase == [id |-> 0, workflowStage |-> ""]

\* a case record as POST /api/cases builds it (lines 298-307)
NewCase(id) == [id |-> id, workflowStage |-> "plaintiff-intake"]

\* the history after a step that leaves the world s.  The events of the step
\* are those of the run whose record the step changed (a step runs code of
\* one run at most); a duration is recorded where a pending call resolves.
Recorded(s) ==
  LET Changed(r)  == r > Len(runs) \/ s.runs[r] # runs[r]
      Accepted(r) == Changed(r) /\ s.runs[r].pc = "awaiting"
      Resolved(r) == /\ r <= Len(runs)
                     /\ runs[r].pc = "awaiting"
                     /\ s.runs[r].pc = "call-resolved"
  IN [events |->
        [r \in 1..Len(s.runs) |->
           IF r > Len(runs) THEN s.out
           ELSE IF Changed(r) THEN history.events[r] \o s.out
           ELSE history.events[r]],
      started |->
        [r \in 1..Len(s.runs) |->
           IF Accepted(r) THEN clock
           ELSE IF r > Len(runs) THEN 0
           ELSE history.started[r]],
      durations |->
        [a \in AgentKeys |->
           IF \E r \in 1..Len(runs) : Resolved(r) /\ agents[a].caller = r
             THEN Append(history.durations[a], clock - history.started[agents[a].caller])
             ELSE history.durations[a]]]

Commit(s) ==
  /\ history' = Recorded(s)
  /\ workflows' = s.wfs
  /\ activeWorkflows' = s.active
  /\ agents' = s.agents
  /\ runs' = s.runs
  /\ jobQueue' = s.jobs
  /\ emitted' = s.out

Init ==
  /\ uuidCount = 0
  /\ calls = 0
  /\ workflows = << >>
  /\ activeWorkflows = {}
  /\ workflowQueue = << >>
  /\ agents = [a \in AgentKeys |->
                 [isProcessing |-> FALSE, status |-> "idle",
                  processedCases |-> 0,
                  averageProcessingTime |-> [num |-> 0, den |-> 1],
                  startTime |-> 0, caller |-> 0]]
  /\ runs = << >>
  /\ jobQueue = << >>
  /\ emitted = << >>
  /\ thrown = NoError
  /\ signalled = {}
  /\ history = [events |-> << >>, started |-> << >>,
                durations |-> [a \in AgentKeys |-> << >>]]
  /\ cases = << >>
  /\ heap = << >>
  /\ workflowsRouter = [workflows |-> << >>, activeWorkflows |-> {}, runs |-> << >>]
  /\ responses = << >>
  /\ documentsFor = Null
  /\ documentsNeeded = << >>
  /\ openaiKey = FALSE
  /\ rag = Null
  /\ disk = [documents |-> NoFile, index |-> NoFile]
  /\ ragCalls = << >>
  /\ clock = 0
  /\ health = [a \in AgentKeys |-> [called |-> FALSE, result |-> FALSE]]

\* ----------------------------------------------------------------- actions
Call ==
  /\ calls < MaxCalls
  /\ calls' = calls + 1

\* startWorkflow(caseData), on the orchestrator's own state
startWorkflow(caseData) ==
  /\ uuidCount < MaxWorkflows
  /\ UNCHANGED calls
  /\ LET w  == newWorkflowId(caseData)
         s0 == [World EXCEPT !.wfs = @ @@ (w :> initialWorkflowState(caseData)),
                             !.active = @ \cup {w}]
         q  == Append(workflowQueue, w)
         s1 == addWorkflowLog(s0, w, "plaintiff-intake", "workflow-orchestrator", "started")
         s2 == Emit(s1, Event("workflow-started", w, caseData.id, s1.wfs[w].currentStage, ""))
         s3 == processQueue(s2, q)
     IN /\ uuidCount' = uuidCount + 1
        /\ workflowQueue' = << >>
        /\ Commit(s3)
  /\ thrown' = NoError
  /\ UNCHANGED signalled

StartWorkflow(caseData) ==
  /\ startWorkflow(caseData)
  /\ UNCHANGED appVars

\* processWorkflow(w, caseData), from the call to its first await (or to its
\* end when it throws at once or every stage is already completed)
ProcessWorkflow(w, caseData) ==
  /\ Call
  /\ IF w \notin activeWorkflows
       THEN /\ thrown' = WorkflowNotFound(w)
            /\ emitted' = << >>
            /\ UNCHANGED << workflows, activeWorkflows, agents, runs, jobQueue, history >>
       ELSE /\ thrown' = NoError
            /\ LET run == [wf |-> w, caseData |-> caseData, currentCase |-> caseData,
                           stage |-> 0, pc |-> "started", error |-> "", value |-> NoCase]
               IN Commit(processWorkflowEnter([World EXCEPT !.runs = Append(@, run)]))
  /\ UNCHANGED << uuidCount, workflowQueue, signalled, appVars >>

\* executeTask of agent a settles: it resolves (ok) or rejects
AgentSettle(a, ok) ==
  /\ agents[a].isProcessing
  /\ Commit(processSettle(World, a, ok,
                           executeTask(a, runs[agents[a].caller].currentCase)))
  /\ thrown' = NoError
  /\ UNCHANGED << uuidCount, calls, workflowQueue, signalled, appVars >>

\* the continuation of run r after  await agent.process(currentCase),
\* the oldest job of the queue
Resume(r) ==
  /\ jobQueue # << >>
  /\ r = Head(jobQueue)
  /\ LET s == [World EXCEPT !.jobs = Tail(@)]
     IN Commit(IF runs[r].pc = "call-resolved" THEN stageSucceeded(s, r)
                                               ELSE stageFailed(s, r))
  /\ thrown' = NoError
  /\ UNCHANGED << uuidCount, calls, workflowQueue, signalled, appVars >>

RunsInProgressOn(w) == {r \in 1..Len(runs) : runs[r].wf = w /\ InProgress(runs[r])}

PauseWorkflow(w) ==
  /\ Call
  /\ IF w \notin activeWorkflows
       THEN /\ thrown' = WorkflowNotFound(w)
            /\ emitted' = << >>
            /\ UNCHANGED << workflows, activeWorkflows, agents, runs, jobQueue, signalled, history >>
       ELSE /\ thrown' = NoError
            /\ LET s1 == addWorkflowLog(World, w, workflows[w].currentStage,
                                        "workflow-orchestrator", "paused")
               IN Commit(Emit(s1, Event("workflow-paused", w, workflows[w].caseId, workflows[w].currentStage, "")))
            /\ signalled' = signalled \cup RunsInProgressOn(w)
  /\ UNCHANGED << uuidCount, workflowQueue, appVars >>

\* faulty variant of CancelWorkflow: an id that is not registered is
\* cancelled without complaint
CancelWorkflowLenient(w) ==
  /\ Call
  /\ thrown' = NoError
  /\ IF w \notin activeWorkflows
       THEN /\ emitted' = << Event("workflow-cancelled", w, 0, "", "") >>
            /\ UNCHANGED << workflows, activeWorkflows, agents, runs, jobQueue, signalled, history >>
       ELSE /\ LET s1 == addWorkflowLog(World, w, workflows[w].currentStage,
                                        "workflow-orchestrator", "cancelled")
                   s2 == [s1 EXCEPT !.active = @ \ {w}]
               IN Commit(Emit(s2, Event("workflow-cancelled", w, workflows[w].caseId, workflows[w].currentStage, "")))
            /\ signalled' = signalled \cup RunsInProgressOn(w)
  /\ UNCHANGED << uuidCount, workflowQueue, appVars >>

CancelWorkflow(w) ==
  /\ Call
  /\ IF w \notin activeWorkflows
       THEN /\ thrown' = WorkflowNotFound(w)
            /\ emitted' = << >>
            /\ UNCHANGED << workflows, activeWorkflows, agents, runs, jobQueue, signalled, history >>
       ELSE /\ thrown' = NoError
            /\ LET s1 == addWorkflowLog(World, w, workflows[w].currentStage,
                                        "workflow-orchestrator", "cancelled")
                   s2 == [s1 EXCEPT !.active = @ \ {w}]
               IN Commit(Emit(s2, Event("workflow-cancelled", w, workflows[w].caseId, workflows[w].currentStage, "")))
            /\ signalled' = signalled \cup RunsInProgressOn(w)
  /\ UNCHANGED << uuidCount, workflowQueue, appVars >>

\* getWorkflowState(w): this.activeWorkflows.get(workflowId) || null
getWorkflowState(w) == IF w \in activeWorkflows THEN workflows[w] ELSE Null

\* getAllActiveWorkflows(): a copy of the map
getAllActiveWorkflows == [w \in activeWorkflows |-> workflows[w]]

\* ids callers pass: every id startWorkflow has returned, and one it never returned
WorkflowIds == DOMAIN workflows \cup {UnknownId}

\* the case record the caller passes for workflow w: the stored case of the
\* workflow (routes/workflows.ts, lines 14-20), any case for an unknown id
CasesFor(w) ==
  IF w \in DOMAIN workflows THEN {NewCase(workflows[w].caseId)}
  ELSE {NewCase(id) : id \in CaseIds}

Next ==
  \/ \E id \in CaseIds : StartWorkflow(NewCase(id))
  \/ \E w \in WorkflowIds : \E c \in CasesFor(w) : ProcessWorkflow(w, c)
  \/ \E a \in AgentKeys, ok \in BOOLEAN : AgentSettle(a, ok)
  \/ \E r \in 1..Len(runs) : Resume(r)
  \/ \E w \in WorkflowIds : PauseWorkflow(w)
  \/ \E w \in WorkflowIds : CancelWorkflow(w)

Spec == Init /\ [][Next]_vars

\* ======================================================= the case in detail
\* The tasks of the three agents on a full LegalCase, and the orchestrator
\* driven by a caller that holds the case record (as the tests and the
\* workflow-processing-required listener do).  A LegalCase is
\*   [id, workflowStage, status, documents, plaintiffInfo, caseDetails]
\* where caseDetails is a reference into heap: processWorkflow and the agents
\* copy a case with  { ...caseData }, which copies the reference.

Urgencies == {"low", "medium", "high", "critical"}

Complexities == {"low", "medium", "high"}

Categories ==
  {"civil-litigation", "contract-dispute", "employment-law", "personal-injury",
   "intellectual-property", "real-estate", "family-law", "criminal-defense",
   "business-law", "other"}

\* plaintiffInfoSchema: of its constraints the model keeps the email format
\* (an address of the test's mockCase, or the string 'invalid') and the
\* enumerated urgency
validPlaintiffInfo(p) == p.email = "john.doe@example.com" /\ p.urgency \in Urgencies

\* caseDetailsSchema: enumerated category and complexity
validCaseDetails(d) == d.category \in Categories /\ d.complexity \in Complexities

\* ------------------------------------------- replies of the generation service
\* A list-valued field of a reply: undefined, or an array
Absent == [defined |-> FALSE, items |-> << >>]

Array(items) == [defined |-> TRUE, items |-> items]

\* the fields the agents read from a parsed reply; "" is undefined
NoFields ==
  [recommendedUrgency |-> "", enhancedDescription |-> "",
   complexityAssessment |-> "", suggestedPrecedents |-> Absent,
   relevantStatutes |-> Absent]

\* What  await geminiService.generateContent(...)  gives: it throws, or
\* response.content is text that is no JSON, the JSON text null, a JSON
\* number, or a JSON object with the given fields.
Reply(kind, fields) == [kind |-> kind, fields |-> fields]

\* a JSON object as the prompts ask for it
ExpectedObject ==
  [NoFields EXCEPT !.recommendedUrgency = "high",
                   !.enhancedDescription = "enhanced description",
                   !.complexityAssessment = "high",
                   !.suggestedPrecedents = Array(<< "Suggested v. Precedent" >>),
                   !.relevantStatutes = Array(<< "Suggested Statute" >>)]

\* a JSON object of another structure than asked for: recommendedUrgency is
\* the number 5 and complexityAssessment the object {"level": "high"} (the
\* model writes a value that is no string as its JSON text)
UnexpectedObject ==
  [NoFields EXCEPT !.recommendedUrgency = "5",
                   !.complexityAssessment = "{level: high}"]

Replies ==
  { Reply("throws", NoFields), Reply("text", NoFields), Reply("null", NoFields),
    Reply("number", NoFields), Reply("object", NoFields),
    Reply("object", ExpectedObject), Reply("object", UnexpectedObject) }

\* JSON.parse(response.content): throws a SyntaxError on text that is no JSON
JSONparse(reply) == [threw |-> reply.kind = "text", value |-> reply]

\* a || b for strings and for arrays (an array, also an empty one, is truthy)
JsOr(a, b) == IF a # "" THEN a ELSE b

JsOrArray(a, b) == IF a.defined THEN a.items ELSE b

\* the try block of enhancePlaintiffInfo / analyzeCaseComplexity throws:
\* generateContent threw, JSON.parse threw, or a property of null was read
tryThrows(reply) ==
  reply.kind = "throws" \/ JSONparse(reply).threw \/ JSONparse(reply).value.kind = "null"

\* --------------------------------------------------------------- IntakeAgent
enhancePlaintiffInfo(plaintiffInfo, reply) ==
  IF tryThrows(reply) THEN plaintiffInfo
  ELSE LET analysis == JSONparse(reply).value.fields IN
       [plaintiffInfo EXCEPT !.urgency = JsOr(analysis.recommendedUrgency, @),
                             !.description = JsOr(analysis.enhancedDescription, @)]

analyzeCaseComplexity(caseDetails, reply) ==
  IF tryThrows(reply) THEN caseDetails
  ELSE LET analysis == JSONparse(reply).value.fields IN
       [caseDetails EXCEPT
          !.complexity = JsOr(analysis.complexityAssessment, @),
          !.precedents = JsOrArray(analysis.suggestedPrecedents, @),
          !.relevantLaws = JsOrArray(analysis.relevantStatutes, @)]

\* The result of a task: it rejected (ok = FALSE) or resolved with value; hp is
\* the heap after it.
Rejected(c, hp) == [ok |-> FALSE, value |-> c, heap |-> hp]

Resolved(c, hp) == [ok |-> TRUE, value |-> c, heap |-> hp]

\* IntakeAgent.executeTask; out.plaintiff and out.complexity are the replies
\* to its two generation calls.  validateInput returns a new object, so the
\* case that is returned has a caseDetails object of its own.
IntakeTask(c, hp, out) ==
  IF ~out.ok \/ ~validPlaintiffInfo(c.plaintiffInfo) \/ ~validCaseDetails(hp[c.caseDetails])
    THEN Rejected(c, hp)
    ELSE LET plaintiffInfo == enhancePlaintiffInfo(c.plaintiffInfo, out.plaintiff)
             caseDetails   == analyzeCaseComplexity(hp[c.caseDetails], out.complexity)
             processedCase == [c EXCEPT !.plaintiffInfo = plaintiffInfo,
                                        !.caseDetails = Len(hp) + 1,
                                        !.status = "active"]
         IN Resolved(executeTask("intake", processedCase), Append(hp, caseDetails))

\* -------------------------------------------------------------- ResearchAgent
\* ResearchAgent.executeTask; out.ok is false when ragService.query or the
\* analysis call throws, out.precedents and out.laws are what
\* identifyKeyPrecedents and extractRelevantLaws return.  Lines 72-80 assign to
\* processedCase.caseDetails, the object the copy shares with the case passed in.
ResearchTask(c, hp, out) ==
  IF ~out.ok THEN Rejected(c, hp)
  ELSE Resolved(executeTask("research", c),
                [hp EXCEPT ![c.caseDetails].precedents = @ \o out.precedents,
                           ![c.caseDetails].relevantLaws = @ \o out.laws])

\* -------------------------------------------------------------- DocumentAgent
\* [...new Set(documents)]: duplicates removed, first occurrence kept
RECURSIVE Dedupe(_)
Dedupe(seq) ==
  IF seq = << >> THEN << >>
  ELSE LET front == Dedupe(SubSeq(seq, 1, Len(seq) - 1))
           last  == seq[Len(seq)]
       IN IF Includes(front, last) THEN front ELSE Append(front, last)

categoryDocuments(category) ==
  CASE category = "civil-litigation"      -> << "complaint", "discovery-request" >>
    [] category = "contract-dispute"      -> << "complaint", "motion", "legal-memo" >>
    [] category = "employment-law"        -> << "complaint", "discovery-request", "legal-memo" >>
    [] category = "personal-injury"       -> << "complaint", "discovery-request", "evidence-summary" >>
    [] category = "intellectual-property" -> << "complaint", "motion", "brief" >>
    [] category = "real-estate"           -> << "contract", "legal-memo" >>
    [] category = "family-law"            -> << "complaint", "motion" >>
    [] category = "criminal-defense"      -> << "motion", "brief" >>
    [] category = "business-law"          -> << "contract", "legal-memo" >>
    [] OTHER                              -> << "legal-memo" >>

\* faulty variant of determineDocumentsNeeded: the urgent motion is pushed at
\* the end
determineDocumentsNeededPush(category, complexity, urgency) ==
  LET d1 == categoryDocuments(category)
      d2 == IF complexity = "high" THEN Append(d1, "brief") ELSE d1
      d3 == IF urgency = "critical" THEN Append(d2, "motion") ELSE d2
  IN Dedupe(d3)

determineDocumentsNeeded(category, complexity, urgency) ==
  LET d1 == categoryDocuments(category)
      d2 == IF complexity = "high" THEN Append(d1, "brief") ELSE d1
      d3 == IF urgency = "critical" THEN << "motion" >> \o d2 ELSE d2
  IN Dedupe(d3)

documentsToGenerate(c, hp) ==
  determineDocumentsNeeded(hp[c.caseDetails].category, hp[c.caseDetails].complexity,
                           c.plaintiffInfo.urgency)

\* the documents the loop of lines 268-313 leaves in generatedDocuments for the
\* types in types: none for a type whose generateDocument call threw (failed),
\* a pdf and a docx document for every other, with the status validateDocument
\* decides
RECURSIVE generatedDocuments(_, _, _)
generatedDocuments(types, failed, valid) ==
  IF types = << >> THEN << >>
  ELSE LET status == IF valid THEN "approved" ELSE "review"
           docs   == IF Head(types) \in failed THEN << >>
                     ELSE << [type |-> Head(types), format |-> "pdf", status |-> status],
                             [type |-> Head(types), format |-> "docx", status |-> status] >>
       IN docs \o generatedDocuments(Tail(types), failed, valid)

\* DocumentAgent.executeTask; out.failed are the document types for which
\* documentService.generateDocument throws, out.valid is the verdict of
\* validateDocument.  out.ok is false when the task throws outside its
\* try block (a record without caseDetails or documents, a listener of
\* progress-update that throws).
DocumentTask(c, hp, out) ==
  IF ~out.ok THEN Rejected(c, hp)
  ELSE Resolved(executeTask("document",
                  [c EXCEPT !.documents =
                     @ \o generatedDocuments(documentsToGenerate(c, hp), out.failed, out.valid)]),
                hp)

\* ------------------------------------------------------------------ outcomes
\* what the services outside the agent do during one task
Outcome(ok, plaintiff, complexity, precedents, laws, failed, valid) ==
  [ok |-> ok, plaintiff |-> plaintiff, complexity |-> complexity,
   precedents |-> precedents, laws |-> laws, failed |-> failed, valid |-> valid]

Failure == Outcome(FALSE, Reply("throws", NoFields), Reply("throws", NoFields),
                   << >>, << >>, {}, TRUE)

IntakeOutcomes ==
  { Outcome(TRUE, p, x, << >>, << >>, {}, TRUE) : p \in Replies, x \in Replies }

ResearchOutcomes ==
  { Outcome(TRUE, Reply("throws", NoFields), Reply("throws", NoFields), f, f, {}, TRUE) :
      f \in { << >>, << "Found v. Retrieved" >> } }

DocumentTypes ==
  {"complaint", "discovery-request", "legal-memo", "motion", "brief",
   "evidence-summary", "contract"}

\* generateDocument works, fails for every type, or fails for one type
DocumentOutcomes ==
  { Outcome(TRUE, Reply("throws", NoFields), Reply("throws", NoFields),
            << >>, << >>, failed, valid) :
      failed \in { {}, DocumentTypes, {"legal-memo"} }, valid \in BOOLEAN }

Outcomes(a) ==
  {Failure} \cup CASE a = "intake"   -> IntakeOutcomes
                   [] a = "research" -> ResearchOutcomes
                   [] a = "document" -> DocumentOutcomes

Task(a, c, hp, out) ==
  CASE a = "intake"   -> IntakeTask(c, hp, out)
    [] a = "research" -> ResearchTask(c, hp, out)
    [] a = "document" -> DocumentTask(c, hp, out)

\* -------------------------------------------------------------------- caller
\* a case record as POST /api/cases builds it from a request body
LegalCase(id, ref, email, urgency) ==
  [id |-> id, workflowStage |-> "plaintiff-intake", status |-> "intake",
   documents |-> << >>,
   plaintiffInfo |-> [email |-> email, urgency |-> urgency,
                      description |-> "description"],
   caseDetails |-> ref]

CaseDetails(category, complexity) ==
  [category |-> category, complexity |-> complexity,
   precedents |-> << "Known v. Precedent" >>, relevantLaws |-> << >>]

\* the request bodies of the example: the end-to-end case of the spec, a
\* complex and critical one, and one that fails validation
CaseInputs ==
  { [email |-> "john.doe@example.com", urgency |-> "low",
     category |-> "other", complexity |-> "low"],
    [email |-> "john.doe@example.com", urgency |-> "critical",
     category |-> "real-estate", complexity |-> "high"],
    [email |-> "invalid", urgency |-> "medium",
     category |-> "contract-dispute", complexity |-> "medium"] }

\* the caller builds a case record
CreateCase(id, input) ==
  /\ id \notin DOMAIN cases
  /\ cases = << >>
  /\ heap' = Append(heap, CaseDetails(input.category, input.complexity))
  /\ cases' = cases @@ (id :> LegalCase(id, Len(heap) + 1, input.email, input.urgency))
  /\ UNCHANGED << uuidCount, calls, workflows, activeWorkflows, workflowQueue,
                  agents, runs, jobQueue, emitted, thrown, signalled, history,
                  workflowsRouter, responses, serviceVars >>

\* the caller starts the workflow of its case
StartCaseWorkflow(id) ==
  /\ uuidCount = 0
  /\ StartWorkflow(cases[id])

\* the caller runs (or runs again) the workflow with the record it holds,
\* when no run is in progress
ProcessCaseWorkflow(w) ==
  /\ \A r \in 1..Len(runs) : ~InProgress(runs[r])
  /\ ProcessWorkflow(w, cases[workflows[w].caseId])

\* executeTask of agent a settles, the services having done out
TaskSettle(a, out) ==
  /\ agents[a].isProcessing
  /\ LET res == Task(a, runs[agents[a].caller].currentCase, heap, out)
     IN /\ Commit(processSettle(World, a, res.ok, res.value))
        /\ heap' = res.heap
  /\ thrown' = NoError
  /\ UNCHANGED << uuidCount, calls, workflowQueue, signalled, cases,
                  workflowsRouter, responses, serviceVars >>

CaseNext ==
  \/ \E id \in {101}, input \in CaseInputs : CreateCase(id, input)
  \/ \E id \in DOMAIN cases : StartCaseWorkflow(id)
  \/ \E w \in activeWorkflows : ProcessCaseWorkflow(w)
  \/ \E a \in AgentKeys : \E out \in Outcomes(a) : TaskSettle(a, out)
  \/ \E r \in 1..Len(runs) : Resume(r)

CaseSpec == Init /\ [][CaseNext]_vars

\* ================================================================ the routes
\* The cases router and the workflows router (routes/cases.ts and
\* routes/workflows.ts).  Each module makes its own WorkflowOrchestrator: the
\* orchestrator of the cases router is the one of the variables workflows,
\* activeWorkflows, workflowQueue, ...; the one of the workflows router is
\* workflowsRouter.  The cases Map is shared (the workflows router imports it).

\* the listeners registered when the modules load, by orchestrator: only the
\* workflows router calls .on(), on its own instance
listeners ==
  [casesRouter |-> {}, workflowsRouter |-> {"workflow-processing-required"}]

\* the listener of workflow-processing-required, up to its call of
\* processWorkflow: it looks the workflow up in the orchestrator of the
\* workflows router and the case in the cases Map
onProcessingRequired(o, store, data) ==
  IF data.wf \in o.activeWorkflows /\ o.workflows[data.wf].caseId \in DOMAIN store
    THEN [o EXCEPT !.runs = Append(@, data.wf)]
    ELSE o

\* emit() of the orchestrator `instance` for the events of one step: every
\* listener registered on that instance for the event's type is called
RECURSIVE deliver(_, _, _, _)
deliver(instance, events, o, store) ==
  IF events = << >> THEN o
  ELSE deliver(instance, Tail(events),
               IF Head(events).type \in listeners[instance]
                 THEN onProcessingRequired(o, store, Head(events))
                 ELSE o,
               store)

Response(request, id, status, workflowId) ==
  [request |-> request, id |-> id, status |-> status, workflowId |-> workflowId]

\* the variables of the orchestrator of the cases router
orchestratorVars ==
  << uuidCount, calls, workflows, activeWorkflows, workflowQueue, agents, runs,
     jobQueue, emitted, thrown, signalled, history >>

\* id: uuidv4() of a new case; case ids are written 101, 102, ... to tell
\* them from workflow ids
newCaseId ==
  101 + Cardinality({i \in DOMAIN responses :
                       responses[i].request = "POST /api/cases" /\ responses[i].status = 201})

Request == Len(responses) < MaxRequests

\* POST /api/cases
PostCase(input) ==
  /\ Request
  /\ IF validPlaintiffInfo([email |-> input.email, urgency |-> input.urgency])
          /\ validCaseDetails(CaseDetails(input.category, input.complexity))
       THEN LET newCase == LegalCase(newCaseId, Len(heap) + 1, input.email, input.urgency)
            IN /\ heap' = Append(heap, CaseDetails(input.category, input.complexity))
               /\ cases' = cases @@ (newCase.id :> newCase)
               /\ startWorkflow(newCase)
               /\ workflowsRouter' = deliver("casesRouter", emitted', workflowsRouter, cases')
               /\ responses' = Append(responses,
                                 Response("POST /api/cases", newCase.id, 201, newWorkflowId(newCase)))
               /\ UNCHANGED serviceVars
       ELSE /\ responses' = Append(responses, Response("POST /api/cases", 0, 400, 0))
            /\ UNCHANGED << orchestratorVars, cases, heap, workflowsRouter, serviceVars >>

\* POST /api/cases/:id/restart-workflow
RestartWorkflow(id) ==
  /\ Request
  /\ IF id \notin DOMAIN cases
       THEN /\ responses' = Append(responses, Response("POST /api/cases/:id/restart-workflow", id, 404, 0))
            /\ UNCHANGED << orchestratorVars, workflowsRouter >>
       ELSE /\ startWorkflow(cases[id])
            /\ workflowsRouter' = deliver("casesRouter", emitted', workflowsRouter, cases)
            /\ responses' = Append(responses,
                              Response("POST /api/cases/:id/restart-workflow", id, 200,
                                       newWorkflowId(cases[id])))
  /\ UNCHANGED << cases, heap, serviceVars >>

\* DELETE /api/cases/:id
DeleteCase(id) ==
  /\ Request
  /\ IF id \notin DOMAIN cases
       THEN /\ responses' = Append(responses, Response("DELETE /api/cases/:id", id, 404, 0))
            /\ UNCHANGED cases
       ELSE /\ cases' = [c \in DOMAIN cases \ {id} |-> cases[c]]
            /\ responses' = Append(responses, Response("DELETE /api/cases/:id", id, 200, 0))
  /\ UNCHANGED << orchestratorVars, heap, workflowsRouter, serviceVars >>

\* GET /api/workflows: the number of workflows listed stands for the list
GetWorkflows ==
  /\ Request
  /\ responses' = Append(responses,
                    Response("GET /api/workflows", Cardinality(workflowsRouter.activeWorkflows), 200, 0))
  /\ UNCHANGED << orchestratorVars, cases, heap, workflowsRouter, serviceVars >>

\* GET /api/workflows/:id
GetWorkflow(id) ==
  /\ Request
  /\ responses' = Append(responses,
                    IF id \in workflowsRouter.activeWorkflows
                      THEN Response("GET /api/workflows/:id", id, 200, id)
                      ELSE Response("GET /api/workflows/:id", id, 404, 0))
  /\ UNCHANGED << orchestratorVars, cases, heap, workflowsRouter, serviceVars >>

RoutesNext ==
  \/ \E input \in CaseInputs : PostCase(input)
  \/ \E id \in CaseIds : RestartWorkflow(id)
  \/ \E id \in CaseIds : DeleteCase(id)
  \/ GetWorkflows
  \/ \E id \in WorkflowIds : GetWorkflow(id)

RoutesSpec == Init /\ [][RoutesNext]_vars

\* the server serves the requests it receives
FairRoutesSpec == RoutesSpec /\ WF_vars(RoutesNext)

\* ============================================ the document selection alone
\* DocumentAgent.determineDocumentsNeeded applied to the category, complexity
\* and urgency of any case that passes validation.

DetermineDocuments(category, complexity, urgency) ==
  /\ documentsFor' = [category |-> category, complexity |-> complexity,
                      urgency |-> urgency]
  /\ documentsNeeded' = determineDocumentsNeeded(category, complexity, urgency)
  /\ UNCHANGED << orchestratorVars, cases, heap, workflowsRouter, responses, ragVars,
                  agentVars >>

DocumentsNext ==
  \E category \in Categories, complexity \in Complexities, urgency \in Urgencies :
    DetermineDocuments(category, complexity, urgency)

DocumentsSpec == Init /\ [][DocumentsNext]_vars

\* ========================================================= the RAGService
\* services/rag.ts.  The engine runs on the event loop of the process: a call
\* runs up to its next await of file or network input/output, and the steps
\* of the calls in progress interleave at these awaits.  Awaits that settle
\* without input/output (the deterministic embedding) suspend a call for
\* microtasks only, which nothing else can interleave with: they are part
\* of the step.  Scores are written in hundredths (70 is 0.7).

\* the documents callers ingest
RagDocuments ==
  { [id |-> "a", content |-> "contract law", type |-> "statute"],
    [id |-> "b", content |-> "tort", type |-> "case-law"] }

\* requests that pass ragQuerySchema (maxResults an integer from 1, threshold
\* from 0 to 1); documentType {} is no filter
RagQueries ==
  { [query |-> "contract", maxResults |-> 1, threshold |-> 0, documentType |-> {}],
    [query |-> "contract", maxResults |-> 2, threshold |-> 90, documentType |-> {}],
    [query |-> "contract", maxResults |-> 2, threshold |-> 0, documentType |-> {"case-law"}] }

\* x || d  for numbers: 0 is falsy
JsOrNumber(x, d) == IF x = 0 THEN d ELSE x

\* --------------------------------------------------------------- embeddings
\* a vector is written as the strategy that computed it and the text it was
\* computed from
Embedding(strategy, text) == [strategy |-> strategy, text |-> text]

\* getMockEmbedding: a function of simpleHash(text)
getMockEmbedding(text) == Embedding("mock", text)

\* 1 - cosine distance of two vectors: 1 for equal vectors; vectors of the
\* real backend are close for related texts; the hash-derived vectors and
\* vectors of different strategies carry no relation
Score(u, v) ==
  IF u = v THEN 100
  ELSE IF u.strategy = "openai" /\ v.strategy = "openai"
         THEN IF {u.text, v.text} = {"contract", "contract law"} THEN 92 ELSE 72
  ELSE IF u.strategy = "mock" /\ v.strategy = "mock" THEN 75
  ELSE 10

\* ------------------------------------------------------------------ HNSWLib
\* an index object: ready after initIndex or readIndex; points in the order
\* of insertion, each a label and a vector
NewIndex(ready) == [ready |-> ready, points |-> << >>]

\* addPoint(vector, label): a label already present is given the new vector
addPoint(index, vector, label) ==
  IF \E i \in DOMAIN index.points : index.points[i].label = label
    THEN [index EXCEPT !.points =
            [i \in DOMAIN @ |-> IF @[i].label = label
                                  THEN [label |-> label, vector |-> vector] ELSE @[i]]]
    ELSE [index EXCEPT !.points = Append(@, [label |-> label, vector |-> vector])]

\* the k points nearest to vector, nearest first (ties: the older point)
RECURSIVE nearest(_, _, _)
nearest(points, vector, k) ==
  IF k = 0 \/ points = << >> THEN << >>
  ELSE LET best == CHOOSE i \in DOMAIN points :
                     \A j \in DOMAIN points :
                       \/ Score(points[i].vector, vector) > Score(points[j].vector, vector)
                       \/ /\ Score(points[i].vector, vector) = Score(points[j].vector, vector)
                          /\ i <= j
           rest == [j \in 1..(Len(points) - 1) |->
                      IF j < best THEN points[j] ELSE points[j + 1]]
       IN << points[best] >> \o nearest(rest, vector, k - 1)

\* searchKnn(vector, k): neighbors and distances, here label and score
searchKnn(index, vector, k) ==
  LET found == nearest(index.points, vector, k)
  IN [i \in DOMAIN found |->
        [label |-> found[i].label, score |-> Score(found[i].vector, vector)]]

\* --------------------------------------------------------------- documents
\* the entry of the Map under key index, or Null
MapGet(entries, index) ==
  IF \E i \in DOMAIN entries : entries[i].index = index
    THEN entries[CHOOSE i \in DOMAIN entries : entries[i].index = index]
    ELSE Null

\* Map.set: a present key keeps its place and takes the new value
MapSet(entries, doc) ==
  IF \E i \in DOMAIN entries : entries[i].index = doc.index
    THEN [i \in DOMAIN entries |-> IF entries[i].index = doc.index THEN doc ELSE entries[i]]
    ELSE Append(entries, doc)

\* JSON.parse(JSON.stringify(doc)): the Date of addedAt comes back as a string
JSONdocument(doc) == [doc EXCEPT !.addedAt = "string"]

\* lines 226-231: documents.clear() and one set per record of the file
RECURSIVE loadDocuments(_, _)
loadDocuments(entries, documentsArray) ==
  IF documentsArray = << >> THEN entries
  ELSE loadDocuments(MapSet(entries, Head(documentsArray)), Tail(documentsArray))

\* ------------------------------------------------------------------- query
\* faulty variant of searchSimilar: the score is not compared with the
\* threshold
searchSimilarNoThreshold(r, queryEmbedding, maxResults, threshold) ==
  IF r.vectorIndex = 0 \/ r.documents = << >> THEN [threw |-> FALSE, results |-> << >>]
  ELSE IF ~r.objects[r.vectorIndex].ready THEN [threw |-> TRUE, results |-> << >>]
  ELSE LET searchResults == searchKnn(r.objects[r.vectorIndex], queryEmbedding, maxResults)
           kept == SelectSeq(searchResults, LAMBDA n : MapGet(r.documents, n.label) # Null)
       IN [threw |-> FALSE,
           results |-> [i \in DOMAIN kept |->
                          [document |-> MapGet(r.documents, kept[i].label),
                           score |-> kept[i].score]]]

\* searchSimilar: [] without an index or without documents; searchKnn throws
\* on an index object that is still being read from its file
searchSimilar(r, queryEmbedding, maxResults, threshold) ==
  IF r.vectorIndex = 0 \/ r.documents = << >> THEN [threw |-> FALSE, results |-> << >>]
  ELSE IF ~r.objects[r.vectorIndex].ready THEN [threw |-> TRUE, results |-> << >>]
  ELSE LET searchResults == searchKnn(r.objects[r.vectorIndex], queryEmbedding, maxResults)
           kept == SelectSeq(searchResults,
                     LAMBDA n : MapGet(r.documents, n.label) # Null /\ ~(n.score < threshold))
       IN [threw |-> FALSE,
           results |-> [i \in DOMAIN kept |->
                          [document |-> MapGet(r.documents, kept[i].label),
                           score |-> kept[i].score]]]

\* applyFilters: of the filters the model keeps documentType
applyFilters(results, documentType) ==
  IF documentType = {} THEN results
  ELSE SelectSeq(results, LAMBDA result : result.document.type \in documentType)

RECURSIVE SumScores(_)
SumScores(results) ==
  IF results = << >> THEN 0 ELSE Head(results).score + SumScores(Tail(results))

\* faulty variant of RAGResult: the mean is taken of an empty list too (0/0,
\* written -1)
RAGResultUnguarded(results) ==
  [documents |-> [i \in DOMAIN results |->
                    [id |-> results[i].document.id, relevanceScore |-> results[i].score]],
   totalResults |-> Len(results),
   confidence |-> IF Len(results) > 0 THEN SumScores(results) \div Len(results) ELSE -1]

RAGResult(results) ==
  [documents |-> [i \in DOMAIN results |->
                    [id |-> results[i].document.id, relevanceScore |-> results[i].score]],
   totalResults |-> Len(results),
   confidence |-> IF Len(results) > 0 THEN SumScores(results) \div Len(results) ELSE 0]

\* lines 53-104 of query, from the embedding on; the catch block returns the
\* empty result
queryResult(r, request, queryEmbedding) ==
  LET searchResults == searchSimilar(r, queryEmbedding,
                                     JsOrNumber(request.maxResults, 10),
                                     JsOrNumber(request.threshold, 70))
  IN IF searchResults.threw THEN RAGResult(<< >>)
     ELSE RAGResult(applyFilters(searchResults.results, request.documentType))

\* ------------------------------------------------------------------- calls
RagOk == [ok |-> TRUE]

RagThrew == [ok |-> FALSE]

\* a call: op and its argument, the await it is suspended at (pc), the file
\* content it has read or is writing (content), the HNSWLib object it is
\* reading or writing (object), the strategy that computed its embedding
\* ("" before), and what it returned
RagCallRecord(op, arg) ==
  [op |-> op, arg |-> arg, pc |-> "called", content |-> NoFile, object |-> 0,
   strategy |-> "", result |-> Null]

ragWorld == [rag |-> rag, disk |-> disk, calls |-> ragCalls]

ragCommit(s) ==
  /\ rag' = s.rag
  /\ disk' = s.disk
  /\ ragCalls' = s.calls

\* the call returns: its locals are gone
finish(s, i, result) ==
  [s EXCEPT !.calls[i].pc = "done", !.calls[i].result = result,
            !.calls[i].content = NoFile, !.calls[i].object = 0]

\* addDocument, lines 119-130: index, addPoint, documents.set, and
\* saveDocuments up to its writeFile; addPoint throws on an index object that
\* is still being read
stored(s, i, embedding) ==
  LET r        == s.rag
      document == s.calls[i].arg
      docIndex == Len(r.documents)
      doc      == [index |-> docIndex, id |-> document.id, content |-> document.content,
                   type |-> document.type, addedAt |-> "Date"]
  IN IF r.vectorIndex # 0 /\ ~r.objects[r.vectorIndex].ready
       THEN finish(s, i, RagThrew)
       ELSE LET entries == MapSet(r.documents, doc)
            IN [s EXCEPT !.rag.objects =
                           IF r.vectorIndex = 0 THEN @
                           ELSE [@ EXCEPT ![r.vectorIndex] = addPoint(@, embedding, docIndex)],
                         !.rag.documents = entries,
                         !.calls[i].pc = "writeFile",
                         !.calls[i].content =
                           File([k \in DOMAIN entries |-> JSONdocument(entries[k])])]

\* the continuation of  await this.getEmbedding(...)
embedded(s, i, strategy) ==
  LET s1 == [s EXCEPT !.calls[i].strategy = strategy]
  IN IF s.calls[i].op = "addDocument"
       THEN stored(s1, i, Embedding(strategy, s.calls[i].arg.content))
       ELSE finish(s1, i, queryResult(s1.rag, s.calls[i].arg,
                                      Embedding(strategy, s.calls[i].arg.query)))

\* getEmbedding: without the key the deterministic embedding at once, else the
\* call of the backend
getEmbedding(s, i) ==
  IF openaiKey THEN [s EXCEPT !.calls[i].pc = "embed"]
  ELSE embedded(s, i, "mock")

\* the continuation of  await this.initialize()
initialized(s, i) ==
  IF s.calls[i].op = "initialize" THEN finish(s, i, RagOk) ELSE getEmbedding(s, i)

notRag ==
  << orchestratorVars, cases, heap, workflowsRouter, responses, documentVars, agentVars >>

\* new RAGService(), in a process started with or without OPENAI_API_KEY
Construct(key) ==
  /\ rag = Null
  /\ openaiKey' = key
  /\ rag' = [isInitialized |-> FALSE, documents |-> << >>, vectorIndex |-> 0,
             objects |-> << >>]
  /\ UNCHANGED << disk, ragCalls, notRag >>

\* a call of initialize(), addDocument(arg) or query(arg), up to its first
\* await of input/output
RagCall(op, arg) ==
  /\ rag # Null
  /\ Len(ragCalls) < MaxRagCalls
  /\ LET i == Len(ragCalls) + 1
         s == [ragWorld EXCEPT !.calls = Append(@, RagCallRecord(op, arg))]
     IN ragCommit(IF op = "initialize" \/ ~rag.isInitialized
                    THEN [s EXCEPT !.calls[i].pc = "access"]
                    ELSE getEmbedding(s, i))
  /\ UNCHANGED << openaiKey, notRag >>

\* loadOrCreateIndex, after fs.access(indexFile) has settled.  Where
\* loadDocuments calls fs.readFile, the file system reads documents.json: the
\* call holds the content of that moment until its continuation runs
Access(i) ==
  /\ ragCalls[i].pc = "access"
  /\ LET object == Len(rag.objects) + 1
     IN ragCommit(
          IF disk.index.exists
            THEN [ragWorld EXCEPT !.rag.objects = Append(@, NewIndex(FALSE)),
                                  !.rag.vectorIndex = object,
                                  !.calls[i].object = object,
                                  !.calls[i].pc = "readIndex"]
            ELSE [ragWorld EXCEPT !.rag.objects = Append(@, NewIndex(TRUE)),
                                  !.rag.vectorIndex = object,
                                  !.calls[i].content = disk.documents,
                                  !.calls[i].pc = "readFile"])
  /\ UNCHANGED << openaiKey, notRag >>

\* readIndex(indexFile) has settled; loadDocuments calls fs.readFile
ReadIndex(i) ==
  /\ ragCalls[i].pc = "readIndex"
  /\ ragCommit([ragWorld EXCEPT
                  !.rag.objects[ragCalls[i].object] = [ready |-> TRUE, points |-> disk.index.content],
                  !.calls[i].content = disk.documents,
                  !.calls[i].pc = "readFile"])
  /\ UNCHANGED << openaiKey, notRag >>

\* loadDocuments after its readFile, the end of initialize, and the caller of
\* initialize up to its next await
ReadFile(i) ==
  /\ ragCalls[i].pc = "readFile"
  /\ LET s == [ragWorld EXCEPT
                 !.rag.documents = IF ragCalls[i].content.exists
                                     THEN loadDocuments(<< >>, ragCalls[i].content.content)
                                     ELSE @,
                 !.rag.isInitialized = TRUE]
     IN ragCommit(initialized(s, i))
  /\ UNCHANGED << openaiKey, notRag >>

\* openai.embeddings.create settles: with the embedding, or with an error
\* that getEmbedding answers with the deterministic embedding
Embed(i, ok) ==
  /\ ragCalls[i].pc = "embed"
  /\ ragCommit(embedded(ragWorld, i, IF ok THEN "openai" ELSE "mock"))
  /\ UNCHANGED << openaiKey, notRag >>

\* saveDocuments after fs.writeFile(documentsFile): writeIndex of the
\* engine's index object
WriteFile(i) ==
  /\ ragCalls[i].pc = "writeFile"
  /\ LET s == [ragWorld EXCEPT !.disk.documents = ragCalls[i].content]
     IN ragCommit(IF rag.vectorIndex = 0 THEN finish(s, i, RagOk)
                  ELSE [s EXCEPT !.calls[i].object = rag.vectorIndex,
                                 !.calls[i].pc = "writeIndex"])
  /\ UNCHANGED << openaiKey, notRag >>

\* writeIndex(indexFile) settles, and addDocument returns; writeIndex throws
\* on an index object that is still being read
WriteIndex(i) ==
  /\ ragCalls[i].pc = "writeIndex"
  /\ ragCommit(IF rag.objects[ragCalls[i].object].ready
                 THEN finish([ragWorld EXCEPT !.disk.index = File(rag.objects[ragCalls[i].object].points)],
                             i, RagOk)
                 ELSE finish(ragWorld, i, RagThrew))
  /\ UNCHANGED << openaiKey, notRag >>

RagNext ==
  \/ \E key \in BOOLEAN : Construct(key)
  \/ RagCall("initialize", Null)
  \/ \E document \in RagDocuments : RagCall("addDocument", document)
  \/ \E request \in RagQueries : RagCall("query", request)
  \/ \E i \in DOMAIN ragCalls :
       \/ Access(i)
       \/ ReadIndex(i)
       \/ ReadFile(i)
       \/ \E ok \in BOOLEAN : Embed(i, ok)
       \/ WriteFile(i)
       \/ WriteIndex(i)

RagSpec == Init /\ [][RagNext]_vars

\* =========================================================== the agents alone
\* BaseAgent under direct calls of process, setMaintenanceMode and healthCheck
\* (as the tests call them), with the time passing between the steps.  A
\* direct call of process is a run without a workflow (wf 0) whose
\* continuation only takes the result.

MaintenanceRefused == << "Cannot set maintenance mode while processing" >>

\* faulty variant of setMaintenanceMode: the check of the flag is missing
setMaintenanceModeUnguarded(ag, enabled) ==
  [threw |-> FALSE,
   agent |-> [ag EXCEPT !.status = IF enabled THEN "maintenance" ELSE "idle"]]

\* setMaintenanceMode(enabled): throws while a task is in flight
setMaintenanceMode(ag, enabled) ==
  IF ag.isProcessing
    THEN [threw |-> TRUE, agent |-> ag]
    ELSE [threw |-> FALSE,
          agent |-> [ag EXCEPT !.status = IF enabled THEN "maintenance" ELSE "idle"]]

\* healthCheck(): performHealthCheck of each of the three agents catches every
\* error and returns false, so the catch of healthCheck (status 'error') never
\* runs; the agent is as it was
healthCheck(ag, healthy) == [result |-> healthy, agent |-> ag]

agentFrame ==
  << uuidCount, calls, workflows, activeWorkflows, workflowQueue, signalled,
     cases, heap, workflowsRouter, responses, documentVars, ragVars >>

\* the clock advances
Tick ==
  /\ clock < MaxClock
  /\ clock' = clock + 1
  /\ UNCHANGED << orchestratorVars, cases, heap, workflowsRouter, responses,
                  documentVars, ragVars, health >>

\* agent.process(caseData) called directly, up to its await
Process(a, caseData) ==
  /\ Len(runs) < MaxProcessCalls
  /\ LET run == [wf |-> 0, caseData |-> caseData, currentCase |-> caseData,
                 stage |-> 0, pc |-> "started", error |-> "", value |-> NoCase]
     IN Commit(processEnter([World EXCEPT !.runs = Append(@, run)], a, Len(runs) + 1))
  /\ thrown' = NoError
  /\ UNCHANGED << agentFrame, agentVars >>

\* the continuation of the direct caller r after  await agent.process(...)
Return(r) ==
  /\ jobQueue # << >>
  /\ r = Head(jobQueue)
  /\ Commit([World EXCEPT !.jobs = Tail(@),
                          !.runs[r].pc = IF @ = "call-resolved" THEN "resolved"
                                                                ELSE "rejected"])
  /\ thrown' = NoError
  /\ UNCHANGED << agentFrame, agentVars >>

SetMaintenanceMode(a, enabled) ==
  /\ LET res == setMaintenanceMode(agents[a], enabled)
     IN /\ agents' = [agents EXCEPT ![a] = res.agent]
        /\ thrown' = IF res.threw THEN MaintenanceRefused ELSE NoError
  /\ emitted' = << >>
  /\ UNCHANGED << agentFrame, agentVars, runs, jobQueue, history >>

\* healthCheck() of agent a, from the call to the value it resolves with
HealthCheck(a, healthy) ==
  /\ LET res == healthCheck(agents[a], healthy)
     IN /\ agents' = [agents EXCEPT ![a] = res.agent]
        /\ health' = [health EXCEPT ![a] = [called |-> TRUE, result |-> res.result]]
  /\ emitted' = << >>
  /\ thrown' = NoError
  /\ UNCHANGED << agentFrame, clock, runs, jobQueue, history >>

\* the agent the callers call: the intake agent, as in the tests (the agents
\* share no state, and what BaseAgent does is the same for the three)
DirectAgents == {"intake"}

AgentNext ==
  \/ Tick
  \/ \E a \in DirectAgents : Process(a, NewCase(101))
  \/ \E a \in DirectAgents, ok \in BOOLEAN : AgentSettle(a, ok)
  \/ \E r \in 1..Len(runs) : Return(r)
  \/ \E a \in DirectAgents, enabled \in BOOLEAN : SetMaintenanceMode(a, enabled)
  \/ \E a \in DirectAgents, healthy \in BOOLEAN : HealthCheck(a, healthy)

AgentSpec == Init /\ [][AgentNext]_vars

\* ================================================================== claims
Runs == 1..Len(runs)

\* the agent the current call of run r goes to
AgentOf(run) == getAgentForStage(getWorkflowStages[run.stage])

\* the process() calls in flight on agent a: the runs suspended in a call
\* the agent accepted
InFlight(a) == {r \in Runs : runs[r].pc = "awaiting" /\ AgentOf(runs[r]) = a}

\* run r calls agent.process in this step: it is new or moves to another stage
Dispatches(r) ==
  /\ r \in 1..Len(runs')
  /\ runs'[r].stage # 0
  /\ (r \in Runs => runs'[r].stage # runs[r].stage)

BusyMessage == "already processing a case"

\* C1: an agent never has more than one process() call in flight; a call made
\* while the agent is processing is rejected at once with the 'already
\* processing a case' error, leaves the agent as it was and is not queued,
\* also when the two calls come from runs of two different workflows.
C1_SingleFlight ==
  /\ [](\A a \in AgentKeys :
          /\ Cardinality(InFlight(a)) <= 1
          /\ agents[a].isProcessing <=> InFlight(a) # {}
          /\ InFlight(a) # {} => InFlight(a) = {agents[a].caller})
  /\ [][\A r \in 1..Len(runs') :
          (Dispatches(r) /\ agents[AgentOf(runs'[r])].isProcessing)
            => /\ runs'[r].pc = "call-rejected"
               /\ runs'[r].error = BusyMessage
               /\ agents' = agents]_vars

\* two runs of two different workflows need the same agent at the same time
C1_Witness ==
  \E r1, r2 \in Runs :
    /\ runs[r1].wf # runs[r2].wf
    /\ runs[r1].pc = "awaiting"
    /\ runs[r2].pc = "call-rejected"
    /\ runs[r2].error = BusyMessage
    /\ AgentOf(runs[r1]) = AgentOf(runs[r2])

\* C2 (as claimed): once no process() call is in flight on an agent, whether the
\* last call returned or threw, isAvailable() is true.
C2_AvailableAfterProcess ==
  \A a \in AgentKeys : ~agents[a].isProcessing => isAvailable(agents[a])

\* C3: when the call of a stage fails, the continuation of the run does not add
\* the stage to completedStages, emits workflow-stage-failed and then
\* workflow-failed and nothing else, rejects the run and invokes no agent; a
\* rejected run never takes another step.
C3_FailFast ==
  [][\A r \in Runs :
       /\ (runs[r].pc = "call-rejected" /\ runs'[r] # runs[r])
            => /\ runs'[r].pc = "rejected"
               /\ runs'[r].stage = runs[r].stage
               /\ workflows'[runs[r].wf].completedStages
                    = workflows[runs[r].wf].completedStages
               /\ Len(emitted') = 2
               /\ emitted'[1].type = "workflow-stage-failed"
               /\ emitted'[1].stage = getWorkflowStages[runs[r].stage]
               /\ emitted'[2].type = "workflow-failed"
               /\ agents' = agents
       /\ runs[r].pc = "rejected" => runs'[r] = runs[r]]_vars

C3_Witness ==
  \E r \in Runs :
    /\ runs[r].pc = "rejected"
    /\ runs[r].stage < NumStages
    /\ ~Includes(workflows[runs[r].wf].completedStages, getWorkflowStages[runs[r].stage])
    /\ Len(emitted) = 2
    /\ emitted[2].type = "workflow-failed"
    /\ emitted[2].wf = runs[r].wf

ErrorsFor(w, stage) ==
  {i \in 1..Len(workflows[w].errors) : workflows[w].errors[i].stage = stage}

\* C4 (as claimed): when the only run of a workflow has been rejected because
\* the research task threw, the workflow's error log holds exactly one entry
\* for the research stage, unresolved, and the workflow is not completed.
C4_OneResearchError ==
  \A r \in Runs :
    ( /\ Len(runs) = 1
      /\ runs[r].pc = "rejected"
      /\ runs[r].error = "task failed"
      /\ getWorkflowStages[runs[r].stage] = "legal-research"
      /\ runs[r].wf \in activeWorkflows )
    => /\ Cardinality(ErrorsFor(runs[r].wf, "legal-research")) = 1
       /\ \A i \in ErrorsFor(runs[r].wf, "legal-research") :
            ~workflows[runs[r].wf].errors[i].resolved
       /\ workflows[runs[r].wf].currentStage # "completed"

IsPrefix(p, q) == Len(p) <= Len(q) /\ \A i \in 1..Len(p) : p[i] = q[i]

NoDuplicates(seq) == \A i, j \in 1..Len(seq) : seq[i] = seq[j] => i = j

\* C5 (as claimed): in every workflow, completedStages is at every moment a
\* prefix of the stage list, and a run that has called the agent of stage j
\* finds every earlier stage in completedStages.
C5_SequentialPrefix ==
  /\ \A w \in activeWorkflows : IsPrefix(workflows[w].completedStages, getWorkflowStages)
  /\ \A r \in Runs :
       (InProgress(runs[r]) /\ runs[r].wf \in activeWorkflows)
         => \A i \in 1..(runs[r].stage - 1) :
              Includes(workflows[runs[r].wf].completedStages, getWorkflowStages[i])

\* C6 (as claimed): once pauseWorkflow or cancelWorkflow has been called for
\* the workflow of a run in progress, that run calls no further agent.
C6_NoDispatchAfterSignal ==
  [][\A r \in signalled : ~Dispatches(r)]_vars

\* C7: every step that registers a workflow w gives it an id different from
\* the case id, makes it active with caseId = the case's id, currentStage =
\* the first stage, progress 0, no completed stage and no error, emits
\* workflow-started for it first, and leaves every other workflow as it was.
C7_StartWorkflow ==
  [][\A w \in (DOMAIN workflows') \ (DOMAIN workflows) :
       /\ w # workflows'[w].caseId
       /\ activeWorkflows' = activeWorkflows \cup {w}
       /\ workflows'[w].caseId \in CaseIds
       /\ workflows'[w].currentStage = getWorkflowStages[1]
       /\ workflows'[w].progress = 0
       /\ workflows'[w].completedStages = << >>
       /\ workflows'[w].errors = << >>
       /\ Len(emitted') >= 1
       /\ emitted'[1].type = "workflow-started"
       /\ emitted'[1].wf = w
       /\ emitted'[1].caseId = workflows'[w].caseId
       /\ \A v \in DOMAIN workflows : workflows'[v] = workflows[v]]_vars

C7_Witness ==
  /\ Cardinality(DOMAIN workflows) = 2
  /\ \E v, w \in activeWorkflows : workflows[v].caseId # workflows[w].caseId
  /\ emitted # << >>
  /\ emitted[1].type = "workflow-started"

\* round(100 * i / 6) for the stage with index i (0..5), 100 for 'completed'
ProgressAt(stage) ==
  IF stage = "completed" THEN 100
  ELSE (2 * 100 * IndexOf(getWorkflowStages, stage) + 6) \div 12

C9_StagesUniqueGrowing ==
  /\ [](\A w \in activeWorkflows :
          /\ Includes(getWorkflowStages, workflows[w].currentStage)
               \/ workflows[w].currentStage = "completed"
          /\ NoDuplicates(workflows[w].completedStages))
  /\ [][\A w \in DOMAIN workflows :
          IsPrefix(workflows[w].completedStages, workflows'[w].completedStages)]_vars

AllCompleted(w) ==
  \A i \in 1..NumStages : Includes(workflows[w].completedStages, getWorkflowStages[i])

\* C10: a run calls the agent of a stage only if the stage is not in
\* completedStages and every earlier stage is; a run started on a workflow
\* whose six stages are all completed resolves at once, calls no agent and
\* leaves completedStages and progress as they were.
C10_IdempotentResume ==
  [][/\ \A r \in 1..Len(runs') :
          Dispatches(r) =>
            LET done == workflows'[runs'[r].wf].completedStages IN
            /\ ~Includes(done, getWorkflowStages[runs'[r].stage])
            /\ \A i \in 1..(runs'[r].stage - 1) : Includes(done, getWorkflowStages[i])
     /\ \A r \in (1..Len(runs')) \ Runs :
          AllCompleted(runs'[r].wf) =>
            /\ runs'[r].pc = "resolved"
            /\ runs'[r].stage = 0
            /\ agents' = agents
            /\ workflows'[runs'[r].wf].completedStages
                 = workflows[runs'[r].wf].completedStages
            /\ workflows'[runs'[r].wf].progress = workflows[runs'[r].wf].progress]_vars

\* a second run resumes at the stage where the first one failed
C10_Witness ==
  \E r1, r2 \in Runs :
    /\ r1 < r2
    /\ runs[r1].wf = runs[r2].wf
    /\ runs[r1].pc = "rejected"
    /\ runs[r1].error = "task failed"
    /\ runs[r1].stage = 4
    /\ runs[r2].pc = "awaiting"
    /\ runs[r2].stage = 4
    /\ agents["intake"].processedCases = 1
    /\ agents["research"].processedCases = 2

\* C11 (as claimed): when the first run of a freshly started workflow has
\* resolved (every agent call of it succeeded), the workflow has currentStage
\* 'completed', progress 100 and the six stages in completedStages, and the
\* case the run returns holds at least one generated document.
C11_EndToEnd ==
  \A r \in Runs :
    (r = 1 /\ runs[r].pc = "resolved")
      => /\ workflows[runs[r].wf].currentStage = "completed"
         /\ workflows[runs[r].wf].progress = 100
         /\ Len(workflows[runs[r].wf].completedStages) = NumStages
         /\ AllCompleted(runs[r].wf)
         /\ Len(runs[r].currentCase.documents) >= 1

C13_CancelRemoves ==
  [][\A w \in DOMAIN workflows :
       /\ (w \in activeWorkflows /\ CancelWorkflow(w))
            => /\ getWorkflowState(w)' = Null
               /\ w \notin DOMAIN getAllActiveWorkflows'
               /\ Len(emitted') = 1
               /\ emitted'[1].type = "workflow-cancelled"
               /\ emitted'[1].wf = w
       /\ (getWorkflowState(w) # Null /\ getWorkflowState(w)' = Null)
            => /\ emitted' # << >>
               /\ emitted'[1].type = "workflow-cancelled"
               /\ emitted'[1].wf = w
       /\ getWorkflowState(w) = Null
            => /\ getWorkflowState(w)' = Null
               /\ w \notin DOMAIN getAllActiveWorkflows']_vars

\* a workflow was cancelled while a run of it was in progress, and the run
\* has gone on to its end
C13_Witness ==
  \E r \in signalled :
    /\ getWorkflowState(runs[r].wf) = Null
    /\ runs[r].pc = "resolved"
    /\ workflows[runs[r].wf].currentStage = "completed"

\* a step that emits nothing, starts no run and leaves agents and workflows alone
Untouched ==
  /\ emitted' = << >>
  /\ agents' = agents
  /\ runs' = runs
  /\ jobQueue' = jobQueue
  /\ workflows' = workflows
  /\ activeWorkflows' = activeWorkflows

\* C14: pauseWorkflow, cancelWorkflow and processWorkflow called with an id
\* that is not registered (never started, or cancelled) throw 'Workflow <id>
\* not found', emit no event, start no run, leave the agents and every
\* workflow state as they were; and nothing else makes a call throw at once.
C14_NotFound ==
  [][/\ \A w \in WorkflowIds \ activeWorkflows :
          ( \/ PauseWorkflow(w)
            \/ CancelWorkflow(w)
            \/ \E c \in CasesFor(w) : ProcessWorkflow(w, c) )
            => thrown' = WorkflowNotFound(w) /\ Untouched
     /\ thrown' # NoError
          => /\ \E w \in WorkflowIds \ activeWorkflows : thrown' = WorkflowNotFound(w)
             /\ Untouched]_vars

\* a call for a cancelled workflow has thrown while another workflow is
\* registered
C14_Witness ==
  \E w \in DOMAIN workflows :
    /\ w \notin activeWorkflows
    /\ thrown = WorkflowNotFound(w)
    /\ activeWorkflows # {}

\* C15 (as claimed): when a run of a registered workflow fails, the workflow's
\* state stays retrievable with currentStage = the failed stage,
\* completedStages = the stages before it and an error recorded for it; and a
\* state is not removed except by cancelWorkflow.
C15_FailedRecordKept ==
  [][/\ \A r \in Runs :
          ( /\ runs[r].pc # "rejected" /\ runs'[r].pc = "rejected"
            /\ getWorkflowState(runs[r].wf) # Null )
            => LET state  == getWorkflowState(runs[r].wf)'
                   failed == getWorkflowStages[runs[r].stage]
               IN /\ state # Null
                  /\ state.currentStage = failed
                  /\ state.completedStages = SubSeq(getWorkflowStages, 1, runs[r].stage - 1)
                  /\ \E i \in 1..Len(state.errors) :
                       state.errors[i].stage = failed /\ ~state.errors[i].resolved
     /\ \A w \in activeWorkflows :
          getWorkflowState(w)' = Null
            => emitted' # << >> /\ emitted'[1].type = "workflow-cancelled"]_vars

\* the position of a stage in the pipeline, 'completed' coming after the last
StageNumber(stage) ==
  IF stage = "completed" THEN NumStages + 1 ELSE IndexOf(getWorkflowStages, stage) + 1

\* C18 (as claimed): an agent.process() call that is given the case at the
\* stage the orchestrator dispatches, and resolves, returns the case with
\* workflowStage advanced by exactly one stage; this for each of the six
\* stages, so that the case keeps step with the workflow.
C18_StageAdvancesByOne ==
  \A r \in Runs :
    ( /\ runs[r].pc = "call-resolved"
      /\ StageNumber(runs[r].currentCase.workflowStage) = runs[r].stage )
      => StageNumber(runs[r].value.workflowStage) = runs[r].stage + 1

\* a case record as its holder reads it: the record with its caseDetails object
Deref(c, hp) == [c EXCEPT !.caseDetails = hp[c.caseDetails]]

\* C17 (as claimed): no step of the orchestrator or of an agent changes a case
\* record the caller holds, its nested precedent and law lists and its
\* document list included, whether the run later resolves or fails.
C17_CaseByValue ==
  [][\A id \in DOMAIN cases : Deref(cases'[id], heap') = Deref(cases[id], heap)]_vars

Range(seq) == {seq[i] : i \in 1..Len(seq)}

\* the documents a resolved call added to the case
Added(run) ==
  SubSeq(run.value.documents, Len(run.currentCase.documents) + 1,
         Len(run.value.documents))

\* C19 (as claimed): a DocumentAgent.process() call never resolves without a
\* document of every required type: when generateDocument fails for a
\* required type the call rejects, and with it the stage and the run.
C19_GenerationFailureFatal ==
  \A r \in Runs :
    (runs[r].pc = "call-resolved" /\ AgentOf(runs[r]) = "document")
      => \A type \in Range(documentsToGenerate(runs[r].currentCase, heap)) :
           \E d \in Range(Added(runs[r])) : d.type = type

\* the reply parses as the structure the prompts ask for: a JSON object whose
\* urgency and complexity, when given, are of the enumerated values
ExpectedStructure(reply) ==
  /\ reply.kind = "object"
  /\ reply.fields.recommendedUrgency \in Urgencies \cup {""}
  /\ reply.fields.complexityAssessment \in Complexities \cup {""}

\* C20 (as claimed): for a case that passes validation, the intake task
\* resolves whatever the two generation calls do, and advances the stage; when
\* a call fails or its reply does not parse as the expected structure, the
\* case keeps the validated original values that reply would have refined
\* (urgency and description; complexity, precedents and laws).
C20_IntakeFallback ==
  [][\A out \in IntakeOutcomes :
       LET r == agents["intake"].caller
           c == runs[r].currentCase
           v == runs'[r].value
       IN ( /\ TaskSettle("intake", out)
            /\ validPlaintiffInfo(c.plaintiffInfo)
            /\ validCaseDetails(heap[c.caseDetails]) )
            => /\ runs'[r].pc = "call-resolved"
               /\ v.workflowStage = "legal-research"
               /\ ~ExpectedStructure(out.plaintiff)
                    => /\ v.plaintiffInfo.urgency = c.plaintiffInfo.urgency
                       /\ v.plaintiffInfo.description = c.plaintiffInfo.description
               /\ ~ExpectedStructure(out.complexity)
                    => /\ heap'[v.caseDetails].complexity = heap[c.caseDetails].complexity
                       /\ heap'[v.caseDetails].precedents = heap[c.caseDetails].precedents
                       /\ heap'[v.caseDetails].relevantLaws = heap[c.caseDetails].relevantLaws]_vars

\* the workflow ids the cases router has returned to a client
Returned ==
  { responses[i].workflowId :
      i \in { j \in DOMAIN responses :
                /\ responses[j].status \in {200, 201}
                /\ responses[j].request \in {"POST /api/cases",
                                              "POST /api/cases/:id/restart-workflow"} } }

\* processWorkflow has been called for workflow w, on either orchestrator
Processed(w) ==
  \/ \E r \in DOMAIN runs : runs[r].wf = w
  \/ Includes(workflowsRouter.runs, w)

\* C16 (as claimed): every workflow id POST /api/cases or restart-workflow
\* has returned is eventually run through processWorkflow, and whenever the
\* workflows API is asked for that id it reports the workflow.
C16_WorkflowStartsAutomatically ==
  /\ \A w \in 1..(MaxWorkflows + 1) : (w \in Returned) ~> Processed(w)
  /\ [](\A i \in DOMAIN responses :
          (responses[i].request = "GET /api/workflows/:id" /\ responses[i].id \in Returned)
            => responses[i].status = 200 /\ responses[i].workflowId = responses[i].id)

\* list is seq without its repetitions, every element at the place of its
\* first occurrence
FirstSeen(list, seq) ==
  /\ NoDuplicates(list)
  /\ Range(list) = Range(seq)
  /\ \A i, j \in DOMAIN list : i < j => IndexOf(seq, list[i]) < IndexOf(seq, list[j])

\* C21: determineDocumentsNeeded returns the category's fixed list, with
\* 'brief' appended when complexity is high and 'motion' prepended when
\* urgency is critical, without repetitions and in first-seen order; the two
\* examples of the specification give the lists it states.
C21_DocumentsNeeded ==
  documentsFor # Null =>
    LET c == documentsFor
        listed == (IF c.urgency = "critical" THEN << "motion" >> ELSE << >>)
                    \o categoryDocuments(c.category)
                    \o (IF c.complexity = "high" THEN << "brief" >> ELSE << >>)
    IN /\ FirstSeen(documentsNeeded, listed)
       /\ c = [category |-> "contract-dispute", complexity |-> "medium", urgency |-> "medium"]
            => documentsNeeded = << "complaint", "motion", "legal-memo" >>
       /\ c = [category |-> "personal-injury", complexity |-> "high", urgency |-> "critical"]
            => documentsNeeded = << "motion", "complaint", "discovery-request",
                                    "evidence-summary", "brief" >>

\* a call in which both rules add a type the category's list already holds
C21_Witness ==
  /\ documentsFor = [category |-> "criminal-defense", complexity |-> "high",
                     urgency |-> "critical"]
  /\ documentsNeeded = << "motion", "brief" >>

\* the fields of an IndexedDocument that the catalog keeps of a document
Indexed(doc) == [index |-> doc.index, id |-> doc.id, content |-> doc.content, type |-> doc.type]

\* C22 (as claimed): under any interleaving of initialize, addDocument and
\* query on one engine, a step removes no document from the catalog and
\* replaces none, and the catalog's indices are 0, 1, 2, ... in the order of
\* insertion.
C22_AppendOnly ==
  [][rag # Null =>
       /\ \A k \in DOMAIN rag.documents :
            /\ k \in DOMAIN rag'.documents
            /\ Indexed(rag'.documents[k]) = Indexed(rag.documents[k])
       /\ \A k \in DOMAIN rag'.documents : rag'.documents[k].index = k - 1]_vars

\* the queries that have returned
Answered == {i \in DOMAIN ragCalls : ragCalls[i].op = "query" /\ ragCalls[i].pc = "done"}

\* C23: a query returns at most maxResults documents, and none with a
\* relevance score below the threshold of the request.
C23_QueryBounds ==
  \A i \in Answered :
    LET request == ragCalls[i].arg
        result  == ragCalls[i].result
    IN /\ Len(result.documents) <= request.maxResults
       /\ result.totalResults = Len(result.documents)
       /\ \A d \in DOMAIN result.documents :
            result.documents[d].relevanceScore >= request.threshold

\* two documents were ingested and a query for one result got one: the
\* second neighbour, as near as the first, was cut off
C23_Witness ==
  /\ Len(ragCalls) = 3
  /\ \A i \in 1..2 : ragCalls[i].op = "addDocument" /\ ragCalls[i].result = RagOk
  /\ Len(rag.documents) = 2
  /\ 3 \in Answered
  /\ ragCalls[3].strategy = "mock"
  /\ ragCalls[3].arg.maxResults = 1
  /\ ragCalls[3].result.totalResults = 1

\* C24: a query that searches a catalog without documents returns
\* documents = [], totalResults = 0 and confidence = 0, whatever it asks for.
C24_EmptyIndex ==
  [][\A i \in DOMAIN ragCalls' :
       ( /\ ragCalls'[i].op = "query"
         /\ ragCalls'[i].pc = "done"
         /\ i \in DOMAIN ragCalls => ragCalls[i].pc # "done"
         /\ rag'.documents = << >> )
         => ragCalls'[i].result =
              [documents |-> << >>, totalResults |-> 0, confidence |-> 0]]_vars

\* a query has returned from an engine that is initialized and holds no
\* document
C24_Witness ==
  /\ rag # Null
  /\ rag.isInitialized
  /\ rag.documents = << >>
  /\ Answered # {}

\* the catalog a fresh engine's initialize() loads from the directory, and
\* the number of vectors of the index it loads
Restored == loadDocuments(<< >>, disk.documents.content)

RestoredVectors == Len(disk.index.content)

\* C25 (as claimed): once addDocument has returned successfully (and no
\* insert is under way), the two files reflect the inserts: a fresh engine's
\* initialize() restores the engine's catalog, document by document under the
\* same indices, and the index file holds as many vectors as the catalog has
\* records.
C25_PersistedRoundTrip ==
  ( /\ \E i \in DOMAIN ragCalls : ragCalls[i].op = "addDocument" /\ ragCalls[i].result = RagOk
    /\ \A i \in DOMAIN ragCalls : ragCalls[i].pc = "done" )
    => /\ [k \in DOMAIN Restored |-> Indexed(Restored[k])]
            = [k \in DOMAIN rag.documents |-> Indexed(rag.documents[k])]
       /\ \A k \in DOMAIN Restored : Restored[k].index = k - 1
       /\ RestoredVectors = Len(Restored)

\* the strategy the engine was constructed with: the backend when the process
\* has the key, the deterministic embedding when it has not
ConstructedStrategy == IF openaiKey THEN "openai" ELSE "mock"

\* C26: every embedding one engine has computed, for addDocument and for query
\* alike, was computed by the strategy the engine was constructed with: no call
\* switches the strategy on its own.
C26_OneStrategy ==
  \A i \in DOMAIN ragCalls :
    ragCalls[i].strategy # "" => ragCalls[i].strategy = ConstructedStrategy

\* the events of run r so far, in order
EventsOf(r) == history.events[r]

\* event k of run r is agent-processing-started of a stage dispatched in the
\* claimed way: workflow-progress and workflow-stage-started of one stage come
\* right before it
StartedInOrder(r, k) ==
  LET h == EventsOf(r) IN
  /\ k >= 3
  /\ h[k-2].type = "workflow-progress"
  /\ h[k-1].type = "workflow-stage-started"
  /\ h[k-2].stage = h[k-1].stage
  /\ h[k-2].wf = runs[r].wf /\ h[k-1].wf = runs[r].wf
  /\ h[k].agent = getAgentForStage(h[k-1].stage)

\* what follows agent-processing-started at k, as far as it has happened:
\* completed and then stage-completed, or failed and then stage-failed and
\* workflow-failed, which end the run
SettledInOrder(r, k) ==
  LET h     == EventsOf(r)
      stage == h[k-1].stage
  IN k < Len(h) =>
       \/ /\ h[k+1].type = "agent-processing-completed"
          /\ h[k+1].agent = h[k].agent
          /\ k + 1 < Len(h) => /\ h[k+2].type = "workflow-stage-completed"
                                /\ h[k+2].stage = stage
       \/ /\ h[k+1].type = "agent-processing-failed"
          /\ h[k+1].agent = h[k].agent
          /\ k + 1 < Len(h) => /\ Len(h) = k + 3
                                /\ h[k+2].type = "workflow-stage-failed"
                                /\ h[k+2].stage = stage
                                /\ h[k+3].type = "workflow-failed"

\* workflow-stage-completed of the last stage was emitted for the workflow of
\* run r before event k of r
LastStageCompletedBefore(r, k) ==
  \E q \in DOMAIN history.events : \E j \in DOMAIN EventsOf(q) :
    /\ runs[q].wf = runs[r].wf
    /\ EventsOf(q)[j].type = "workflow-stage-completed"
    /\ EventsOf(q)[j].stage = getWorkflowStages[NumStages]
    /\ q = r => j < k

\* C27: in every run of processWorkflow the events of a stage whose agent
\* accepts the call come in the order workflow-progress,
\* workflow-stage-started, agent-processing-started, then
\* agent-processing-completed and workflow-stage-completed, or
\* agent-processing-failed, workflow-stage-failed and workflow-failed;
\* workflow-completed comes only after workflow-stage-completed of the last
\* stage and never in a run that emitted workflow-failed.
C27_EventOrder ==
  \A r \in DOMAIN history.events :
    LET h == EventsOf(r) IN
    \A k \in DOMAIN h :
      /\ h[k].type = "agent-processing-started" =>
            StartedInOrder(r, k) /\ SettledInOrder(r, k)
      /\ h[k].type \in {"agent-processing-completed", "agent-processing-failed"} =>
            k > 1 /\ h[k-1].type = "agent-processing-started"
      /\ h[k].type = "workflow-stage-completed" =>
            k > 1 /\ h[k-1].type = "agent-processing-completed"
      /\ h[k].type = "workflow-completed" =>
            /\ k = Len(h)
            /\ \A j \in DOMAIN h : h[j].type # "workflow-failed"
            /\ LastStageCompletedBefore(r, k)

RECURSIVE Sum(_)
Sum(seq) == IF seq = << >> THEN 0 ELSE Head(seq) + Sum(Tail(seq))

\* C28: processedCases of an agent is the number of its process() calls that
\* resolved, and averageProcessingTime is the mean of the durations of those
\* calls (0 before the first); calls that failed or were rejected as busy
\* count for neither.
C28_Metrics ==
  \A a \in AgentKeys :
    LET durations == history.durations[a]
        average   == agents[a].averageProcessingTime
    IN /\ agents[a].processedCases = Len(durations)
       /\ average.num * Len(durations) = Sum(durations) * average.den
       /\ durations = << >> => average.num = 0

\* two calls of different durations have resolved, and a call has failed or
\* was rejected as busy
C28_Witness ==
  \E a \in AgentKeys :
    LET durations == history.durations[a]
    IN /\ Len(durations) = 2
       /\ durations[1] # durations[2]
       /\ agents[a].processedCases = 2
       /\ \E r \in 1..Len(runs) : runs[r].pc = "rejected"

FlagIffProcessing ==
  \A a \in AgentKeys : agents[a].isProcessing <=> agents[a].status = "processing"

\* the process() call of run r settles in this step
Settles(r) ==
  /\ r <= Len(runs)
  /\ runs[r].pc = "awaiting"
  /\ runs'[r].pc \in {"call-resolved", "call-rejected"}

\* C29: the in-flight flag of an agent is set exactly when its status is
\* 'processing'; setMaintenanceMode throws and changes nothing while a task is
\* in flight; when process() settles the status is 'idle' or 'error'.
C29_StatusConsistent ==
  [][/\ FlagIffProcessing'
     /\ \A a \in AgentKeys :
          /\ agents[a].isProcessing /\ agents'[a].isProcessing
               => agents'[a] = agents[a]
          /\ agents[a].isProcessing /\ Settles(agents[a].caller)
               => agents'[a].status \in {"idle", "error"}
     /\ thrown' = MaintenanceRefused
          => agents' = agents /\ \E a \in AgentKeys : agents[a].isProcessing]_vars

\* setMaintenanceMode has just been refused for an agent in flight, after an
\* earlier call resolved and a health check
C29_Witness ==
  /\ thrown = MaintenanceRefused
  /\ \E a \in AgentKeys :
       /\ agents[a].isProcessing
       /\ agents[a].processedCases > 0
       /\ health[a].called

\* run r is rejected as busy in this step
BusyRejected(r) ==
  /\ r > Len(runs) \/ runs[r].pc # "call-rejected"
  /\ runs'[r].pc = "call-rejected"
  /\ runs'[r].error = BusyMessage

\* C30: a process() call rejected as busy changes no field of any agent (the
\* flag stays set for the call in flight, the status stays 'processing', the
\* metrics stay), emits no agent-processing event and leaves the call in
\* flight pending; that call, when it resolves, counts and releases the agent.
C30_BusyNoEffect ==
  [][/\ \A r \in 1..Len(runs') :
          BusyRejected(r) =>
            /\ agents' = agents
            /\ \A k \in DOMAIN emitted' :
                 emitted'[k].type \notin {"agent-processing-started",
                                          "agent-processing-completed",
                                          "agent-processing-failed"}
            /\ \E a \in AgentKeys :
                 /\ agents[a].isProcessing
                 /\ agents[a].status = "processing"
                 /\ agents[a].caller # r
                 /\ runs'[agents[a].caller] = runs[agents[a].caller]
     /\ \A a \in AgentKeys :
          LET c == agents[a].caller IN
          agents[a].isProcessing /\ Settles(c) /\ runs'[c].pc = "call-resolved"
            => /\ ~agents'[a].isProcessing
               /\ agents'[a].status = "idle"
               /\ agents'[a].processedCases = agents[a].processedCases + 1]_vars

\* the second call was rejected as busy while the first was in flight; the
\* first has resolved and the agent is released
C30_Witness ==
  /\ Len(runs) = 2
  /\ runs[1].pc = "resolved"
  /\ runs[2].error = BusyMessage
  /\ \E a \in AgentKeys :
       /\ agents[a].processedCases = 1
       /\ agents[a].status = "idle"
       /\ ~agents[a].isProcessing

=============================================================================
